---- MODULE Spec2Model ----
(***************************************************************************)
(* Model of the orchestrator's query intake (api/query.rs) and of its      *)
(* approval endpoint (api/actions.rs): the pending_actions table, the      *)
(* decide handler handle_approve, the connectors it dispatches to, and     *)
(* the pending-actions listing.                                            *)
(*                                                                         *)
(* handle_approve awaits the store and the connector, so other requests    *)
(* run between its statements: it is modelled as three steps (the UPDATE,  *)
(* the SELECT that reads the row back, the connector call followed by the  *)
(* response).  handle_query and handle_get_pending are one step each.      *)
(***************************************************************************)
EXTENDS Integers, Sequences, FiniteSets, TLC

\* ------------------------------------------------------------------ bounds
MaxQueries == 1      \* submit-query calls in one behaviour
MaxCalls == 2        \* decide calls in one behaviour
MaxTime == 2         \* values of the store's clock NOW()

QueryIds == 1..MaxQueries
Calls == 1..MaxCalls
Times == 1..MaxTime

\* Uuid::new_v4() in handle_query: the n-th query gets request id n and
\* action id n (two separate id spaces, both fresh).
ActionIds == QueryIds

\* a Uuid no submit-query call generates (the action_id of a decide request
\* that names no drafted action)
UnknownId == 0

\* user_signature values of the decide requests
Signatures == {"alice", "bob"}
UserIds == {"u1"}

\* Option<T>
None == <<>>
Some(x) == <<x>>
IsSome(o) == Len(o) = 1
Unwrap(o) == o[1]

\* ------------------------------------------------------------- strings
\* A text is a sequence of words; contains(needle) is the occurrence of the
\* needle's words as a contiguous run.
Contains(text, needle) ==
    \E i \in 1..(Len(text) - Len(needle) + 1) :
        \A j \in 1..Len(needle) : text[i + j - 1] = needle[j]

\* str::to_lowercase on the words the model uses
LowerWord(w) ==
    CASE w = "Ticket" -> "ticket"
      [] w = "INCIDENT" -> "incident"
      [] w = "Email" -> "email"
      [] w = "ALERT" -> "alert"
      [] w = "Slack" -> "slack"
      [] w = "Calculate" -> "calculate"
      [] w = "Post" -> "post"
      [] OTHER -> w

to_lowercase(text) == [i \in 1..Len(text) |-> LowerWord(text[i])]

\* ------------------------------------------------------------- store rows
\* the status strings the handlers bind
StatusPending == "pending"
StatusApproved == "approved"
StatusRejected == "rejected"

\* the SELECT list of both queries of actions.rs
PendingActionDTO(id, row) ==
    [id |-> id, action_type |-> row.action_type, payload |-> row.payload,
     status |-> row.status]

\* values of the process environment variables the handlers read
SmtpUsers == {"", "ops@example.com", "not a mailbox"}
SmtpPasses == {"", "secret"}
JiraDomains == {"", "https://jira.example.com"}
SlackWebhooks == {"", "https://hooks.example.com/x"}

\* str::parse::<Mailbox>() succeeds
ValidMailbox(s) == s = "ops@example.com"

NoResponse == [status |-> "none", message |-> ""]
SuccessResponse == [status |-> "success", message |-> ""]
ErrorResponse(msg) == [status |-> "error", message |-> msg]

VARIABLES
    env,              \* process environment (fixed after start-up)
    now,              \* the store's clock
    requests,         \* table requests: id -> row
    pending_actions,  \* table pending_actions: id -> row
    nq,               \* number of submit-query calls handled
    query_responses,  \* response of each handled query
    pc,               \* position of each decide call
    request,          \* ApproveRequest of each decide call
    action_row,       \* the row each decide call read back
    response,         \* response of each decide call
    prior,            \* history: row status each call's UPDATE found
    connector_log,    \* history: connector invocations of each decide call
    pending_list      \* last response of GET /pending

vars == <<env, now, requests, pending_actions, nq, query_responses, pc, request,
          action_row, response, prior, connector_log, pending_list>>

callVars == <<pc, request, action_row, response, prior, connector_log>>

\* -------------------------------------------------------- submit query
\* the chain with the email test ahead of the ticket test
classify_email_first(query) ==
    LET q_lower == to_lowercase(query) IN
    IF Contains(q_lower, <<"email">>) \/ Contains(q_lower, <<"alert">>)
        THEN "EMAIL_ALERT"
    ELSE IF Contains(q_lower, <<"ticket">>) \/ Contains(q_lower, <<"incident">>)
        THEN "JIRA_TICKET"
    ELSE IF Contains(q_lower, <<"slack">>)
            \/ Contains(q_lower, <<"post", "to", "channel">>)
        THEN "SLACK_ALERT"
    ELSE IF Contains(q_lower, <<"calculate">>) \/ Contains(q_lower, <<"solve">>)
            \/ Contains(q_lower, <<"math">>)
        THEN "COMPUTE"
    ELSE "RAG"

\* the chain over the query as sent, not over q_lower
classify_without_lowercase(query) ==
    IF Contains(query, <<"ticket">>) \/ Contains(query, <<"incident">>)
        THEN "JIRA_TICKET"
    ELSE IF Contains(query, <<"email">>) \/ Contains(query, <<"alert">>)
        THEN "EMAIL_ALERT"
    ELSE IF Contains(query, <<"slack">>)
            \/ Contains(query, <<"post", "to", "channel">>)
        THEN "SLACK_ALERT"
    ELSE IF Contains(query, <<"calculate">>) \/ Contains(query, <<"solve">>)
            \/ Contains(query, <<"math">>)
        THEN "COMPUTE"
    ELSE "RAG"

\* The if / else-if chain of handle_query over q_lower: first match wins.
classify(query) ==
    LET q_lower == to_lowercase(query) IN
    IF Contains(q_lower, <<"ticket">>) \/ Contains(q_lower, <<"incident">>)
        THEN "JIRA_TICKET"
    ELSE IF Contains(q_lower, <<"email">>) \/ Contains(q_lower, <<"alert">>)
        THEN "EMAIL_ALERT"
    ELSE IF Contains(q_lower, <<"slack">>)
            \/ Contains(q_lower, <<"post", "to", "channel">>)
        THEN "SLACK_ALERT"
    ELSE IF Contains(q_lower, <<"calculate">>) \/ Contains(q_lower, <<"solve">>)
            \/ Contains(q_lower, <<"math">>)
        THEN "COMPUTE"
    ELSE "RAG"

DraftTypes == {"JIRA_TICKET", "EMAIL_ALERT", "SLACK_ALERT"}

target_service(action_type) ==
    CASE action_type = "JIRA_TICKET" -> "jira"
      [] action_type = "EMAIL_ALERT" -> "smtp"
      [] action_type = "SLACK_ALERT" -> "slack"

\* the payloads with the email branch's recipient left out
draft_payload_without_recipient(action_type, query) ==
    CASE action_type = "JIRA_TICKET" ->
            [description |-> <<"Create JIRA Ticket: ", query>>, priority |-> "high"]
      [] action_type = "EMAIL_ALERT" ->
            [description |-> <<"Send Email: ", query>>, priority |-> "high"]
      [] action_type = "SLACK_ALERT" ->
            [description |-> <<"Post to Slack Channel: ", query>>,
             channel |-> "#general", priority |-> "high"]

\* json!({...}) of each drafting branch; description is format!(prefix, query)
draft_payload(action_type, query) ==
    CASE action_type = "JIRA_TICKET" ->
            [description |-> <<"Create JIRA Ticket: ", query>>, priority |-> "high"]
      [] action_type = "EMAIL_ALERT" ->
            [description |-> <<"Send Email: ", query>>,
             recipient |-> "admin@example.com", priority |-> "high"]
      [] action_type = "SLACK_ALERT" ->
            [description |-> <<"Post to Slack Channel: ", query>>,
             channel |-> "#general", priority |-> "high"]

draft_summary(action_type, action_id) ==
    CASE action_type = "JIRA_TICKET" -> <<"Prepared JIRA ticket (Action ID: ", action_id>>
      [] action_type = "EMAIL_ALERT" -> <<"Drafted Email Alert (Action ID: ", action_id>>
      [] action_type = "SLACK_ALERT" -> <<"I have drafted a Slack message.">>

\* INSERT INTO requests (id, user_id, query, status, created_at)
RequestRow(user_id, query, t) ==
    [user_id |-> user_id, query |-> query, status |-> "processing", created_at |-> t]

\* INSERT INTO pending_actions (id, request_id, action_type, target_service,
\* payload, status, created_at); approved_at and approved_by stay NULL
NewActionRow(request_id, action_type, query, t) ==
    [request_id |-> request_id, action_type |-> action_type,
     target_service |-> target_service(action_type),
     payload |-> draft_payload(action_type, query),
     status |-> StatusPending, created_at |-> t,
     approved_at |-> None, approved_by |-> None]

Insert(table, id, row) == table @@ (id :> row)

\* pending_actions.request_id references requests(id): the store refuses an
\* action row whose request row is absent
references_request(table, request_id) == request_id \in DOMAIN table

\* chars().take(150) of a retrieved text
ExcerptLen == 150
\* the text collected without take(150)
Take_whole(text, n) == text

Take(text, n) == SubSeq(text, 1, IF Len(text) < n THEN Len(text) ELSE n)

Placeholder == <<"No relevant documents found.">>

\* PATH C returning the computation summary whatever the interpreter did
compute_path_ignoring_interpreter(o) ==
    IF env.GROQ_API_KEY = "" THEN [summary |-> None, calls |-> <<>>, failed |-> <<>>]
    ELSE IF o.code_llm # "ok"
        THEN [summary |-> None, calls |-> <<"llm">>, failed |-> <<"code_llm">>]
    ELSE [summary |-> Some(<<"I wrote and executed a Python script", o.output>>),
          calls |-> <<"llm", "interpreter">>,
          failed |-> IF o.interpreter # "ok" THEN <<"interpreter">> ELSE <<>>]

\* PATH C of handle_query: Some(response summary) when every step of the
\* computation succeeded, None when the handler falls through to PATH D.
\* calls are the collaborator calls made, failed those among them that gave
\* no usable reply.
compute_path(o) ==
    IF env.GROQ_API_KEY = "" THEN [summary |-> None, calls |-> <<>>, failed |-> <<>>]
    ELSE IF o.code_llm # "ok"
        THEN [summary |-> None, calls |-> <<"llm">>, failed |-> <<"code_llm">>]
    ELSE IF o.interpreter # "ok"
        THEN [summary |-> None, calls |-> <<"llm", "interpreter">>,
              failed |-> <<"interpreter">>]
    ELSE [summary |-> Some(<<"I wrote and executed a Python script", o.output>>),
          calls |-> <<"llm", "interpreter">>, failed |-> <<>>]

\* the loop without its test of text.is_empty()
RECURSIVE collect_keeping_empty(_)
collect_keeping_empty(matches) ==
    IF matches = <<>> THEN [context |-> <<>>, citations |-> <<>>]
    ELSE LET m == Head(matches)
             rest == collect_keeping_empty(Tail(matches))
         IN [context |-> <<m.text>> \o rest.context,
             citations |-> <<[page |-> m.page, text |-> Take(m.text, ExcerptLen),
                              relevance_score |-> m.score]>> \o rest.citations]

\* the loop over results["results"]: matches with non-empty text only
RECURSIVE collect(_)
collect(matches) ==
    IF matches = <<>> THEN [context |-> <<>>, citations |-> <<>>]
    ELSE LET m == Head(matches)
             rest == collect(Tail(matches))
         IN IF m.text # <<>>
            THEN [context |-> <<m.text>> \o rest.context,
                  citations |-> <<[page |-> m.page, text |-> Take(m.text, ExcerptLen),
                                   relevance_score |-> m.score]>> \o rest.citations]
            ELSE rest

\* PATH D calling the search whatever the embedding call gave
rag_path_search_always(o) ==
    LET found == IF o.search = "ok" THEN collect(o.matches)
                 ELSE [context |-> <<>>, citations |-> <<>>]
        context_text == IF found.context = <<>> THEN Placeholder ELSE found.context
        asked == env.GROQ_API_KEY # ""
        summary == IF ~asked \/ o.llm \in {"send_err", "bad_json"} THEN <<>>
                   ELSE IF o.llm = "no_content" THEN <<"Error">>
                   ELSE o.completion
    IN [summary |-> summary, citations |-> found.citations,
        context |-> context_text,
        results |-> IF o.search = "ok" THEN o.matches ELSE <<>>,
        calls |-> <<"embed", "search">> \o (IF asked THEN <<"llm">> ELSE <<>>),
        failed |-> (IF o.embed # "ok" THEN <<"embed">> ELSE <<>>)
                   \o (IF o.search # "ok" THEN <<"search">> ELSE <<>>)
                   \o (IF asked /\ o.llm # "ok" THEN <<"llm">> ELSE <<>>)]

\* PATH D of handle_query: embedding, hybrid search, context, completion;
\* calls are the collaborator calls made, in order, failed those among them
\* that gave no usable reply
rag_path(o) ==
    LET searched == o.embed = "ok"
        found == IF searched /\ o.search = "ok" THEN collect(o.matches)
                 ELSE [context |-> <<>>, citations |-> <<>>]
        context_text == IF found.context = <<>> THEN Placeholder ELSE found.context
        asked == env.GROQ_API_KEY # ""
        summary == IF ~asked \/ o.llm \in {"send_err", "bad_json"} THEN <<>>
                   ELSE IF o.llm = "no_content" THEN <<"Error">>
                   ELSE o.completion
    IN [summary |-> summary, citations |-> found.citations,
        context |-> context_text,
        results |-> IF searched /\ o.search = "ok" THEN o.matches ELSE <<>>,
        calls |-> <<"embed">> \o (IF searched THEN <<"search">> ELSE <<>>)
                  \o (IF asked THEN <<"llm">> ELSE <<>>),
        failed |-> (IF ~searched THEN <<"embed">> ELSE <<>>)
                   \o (IF searched /\ o.search # "ok" THEN <<"search">> ELSE <<>>)
                   \o (IF asked /\ o.llm # "ok" THEN <<"llm">> ELSE <<>>)]

\* handle_query: the request row, then the branch the query text selects.
\* Both INSERTs discard their result (let _ = ...), so a failed write goes
\* unnoticed; req_ok and act_ok are the store's answers. Beside the reply, the
\* recorded response keeps the handler's context_text (the texts of the prompt
\* it assembles), the matches the search returned, the collaborator calls
\* made and those of them that failed.
handle_query(user_id, query, req_ok, act_ok, t, o) ==
    LET request_id == nq + 1
        action_id == nq + 1
        kind == classify(query)
        computed == IF kind = "COMPUTE" THEN compute_path(o)
                    ELSE [summary |-> None, calls |-> <<>>, failed |-> <<>>]
        rag == rag_path(o)
    IN
    /\ nq' = nq + 1
    /\ now' = t
    /\ requests' = IF req_ok THEN Insert(requests, request_id, RequestRow(user_id, query, t))
                   ELSE requests
    /\ pending_actions' =
          IF kind \in DraftTypes /\ act_ok /\ references_request(requests', request_id)
          THEN Insert(pending_actions, action_id, NewActionRow(request_id, kind, query, t))
          ELSE pending_actions
    /\ query_responses' = Append(query_responses,
          IF kind \in DraftTypes
          THEN [request_id |-> request_id, summary |-> draft_summary(kind, action_id),
                citations |-> <<>>, pending_actions |-> <<action_id>>,
                context |-> <<>>, results |-> <<>>, calls |-> <<>>, failed |-> <<>>]
          ELSE IF IsSome(computed.summary)
          THEN [request_id |-> request_id, summary |-> Unwrap(computed.summary),
                citations |-> <<>>, pending_actions |-> <<>>,
                context |-> <<>>, results |-> <<>>, calls |-> computed.calls,
                failed |-> computed.failed]
          ELSE [request_id |-> request_id, summary |-> rag.summary,
                citations |-> rag.citations, pending_actions |-> <<>>,
                context |-> rag.context, results |-> rag.results,
                calls |-> computed.calls \o rag.calls,
                failed |-> computed.failed \o rag.failed])
    /\ UNCHANGED <<env, callVars, pending_list>>

\* ------------------------------------------------------------ connectors
\* Each connector yields the set of outcomes it can have: result Ok or Err
\* (with the error text), or a panic of the handler's task; sent counts the
\* requests handed to the external collaborator's transport.
Outcome(result, message, sent) ==
    [result |-> result, message |-> message, sent |-> sent]

\* payload["recipient"].as_str().unwrap_or("admin@example.com")
payload_recipient(payload) ==
    IF "recipient" \in DOMAIN payload THEN payload.recipient ELSE "admin@example.com"

send_real_email(payload) ==
    LET smtp_user == env.SMTP_USER
        smtp_pass == env.SMTP_PASS
        recipient == IF payload_recipient(payload) = "admin@example.com"
                     THEN smtp_user ELSE payload_recipient(payload)
    IN IF smtp_user = "" \/ smtp_pass = ""
       THEN {Outcome("Err", "SMTP creds missing", 0)}
       \* .from(format!("Agentic AI <{}>", smtp_user).parse::<Mailbox>().unwrap())
       ELSE IF ~ValidMailbox(smtp_user) THEN {Outcome("panic", "", 0)}
       ELSE IF ~ValidMailbox(recipient) THEN {Outcome("Err", "invalid recipient", 0)}
       \* TlsParameters::new / relay may fail before anything is sent
       ELSE {Outcome("Err", "smtp setup failed", 0),
             Outcome("Err", "smtp send failed", 1),
             Outcome("Ok", "", 1)}

create_real_jira_ticket(payload) ==
    IF env.JIRA_DOMAIN = "" THEN {Outcome("Err", "Jira credentials missing", 0)}
    ELSE {Outcome("Err", "request failed", 1),
          Outcome("Err", "Jira API Error", 1),
          Outcome("Ok", "", 1)}

post_slack_message(payload, user_signature) ==
    IF env.SLACK_WEBHOOK_URL = "" THEN {Outcome("Err", "SLACK_WEBHOOK_URL is not set", 0)}
    ELSE {Outcome("Err", "request failed", 1),
          Outcome("Err", "Slack API Error", 1),
          Outcome("Ok", "", 1)}

ConnectorTypes == {"EMAIL_ALERT", "JIRA_TICKET", "SLACK_ALERT"}

\* the chain with the connectors of its first two branches exchanged
dispatch_swapped(action, user_signature) ==
    IF action.action_type = "EMAIL_ALERT" THEN create_real_jira_ticket(action.payload)
    ELSE IF action.action_type = "JIRA_TICKET" THEN send_real_email(action.payload)
    ELSE IF action.action_type = "SLACK_ALERT"
        THEN post_slack_message(action.payload, user_signature)
    ELSE {}

\* the if / else-if chain on action.action_type in handle_approve
dispatch(action, user_signature) ==
    IF action.action_type = "EMAIL_ALERT" THEN send_real_email(action.payload)
    ELSE IF action.action_type = "JIRA_TICKET" THEN create_real_jira_ticket(action.payload)
    ELSE IF action.action_type = "SLACK_ALERT"
        THEN post_slack_message(action.payload, user_signature)
    ELSE {}

\* --------------------------------------------------------------- decide
\* the status bound to $1 without the test of request.approved
decision_status_always_approved(approved) == StatusApproved

\* let status = if request.approved { "approved" } else { "rejected" }
decision_status(approved) == IF approved THEN StatusApproved ELSE StatusRejected

\* UPDATE pending_actions SET status = $1, approved_at = NOW(),
\* approved_by = $2 WHERE id = $3
update_action(table, status, t, user_signature, action_id) ==
    [id \in DOMAIN table |->
        IF id = action_id
        THEN [table[id] EXCEPT !.status = status, !.approved_at = Some(t),
                               !.approved_by = Some(user_signature)]
        ELSE table[id]]

\* step 2 entered without the test of request.approved
executes_always(approved) == TRUE

\* if request.approved { ... }: whether handle_approve goes on to read the row
\* back and call a connector
executes(approved) == approved

StatusOf(table, id) == IF id \in DOMAIN table THEN table[id].status ELSE "absent"

\* step 1 without the early return on the store's Err
ApproveUpdate_without_error_return(c, action_id, approved, user_signature, ok, t) ==
    /\ pc[c] = "idle"
    /\ IF c = 1 THEN TRUE ELSE pc[c - 1] # "idle"
    /\ now' = t
    /\ request' = [request EXCEPT ![c] =
          [action_id |-> action_id, approved |-> approved,
           user_signature |-> user_signature]]
    /\ prior' = [prior EXCEPT ![c] = StatusOf(pending_actions, action_id)]
    /\ pending_actions' =
          IF ok THEN update_action(pending_actions, decision_status(approved), t,
                                   user_signature, action_id)
          ELSE pending_actions
    /\ pc' = [pc EXCEPT ![c] = IF executes(approved) THEN "select" ELSE "done"]
    /\ response' = [response EXCEPT ![c] =
          IF executes(approved) THEN NoResponse ELSE SuccessResponse]
    /\ UNCHANGED <<env, requests, nq, query_responses, action_row, connector_log,
                   pending_list>>

\* Step 1 of handle_approve: the UPDATE; an Err from the store ends the call
\* with the error response, a rejection ends it with success. Decide calls are
\* numbered in the order of their first step (the calls are interchangeable).
ApproveUpdate(c, action_id, approved, user_signature, ok, t) ==
    /\ pc[c] = "idle"
    /\ IF c = 1 THEN TRUE ELSE pc[c - 1] # "idle"
    /\ now' = t
    /\ request' = [request EXCEPT ![c] =
          [action_id |-> action_id, approved |-> approved,
           user_signature |-> user_signature]]
    /\ prior' = [prior EXCEPT ![c] = StatusOf(pending_actions, action_id)]
    /\ pending_actions' =
          IF ok THEN update_action(pending_actions, decision_status(approved), t,
                                   user_signature, action_id)
          ELSE pending_actions
    /\ pc' = [pc EXCEPT ![c] = IF ok /\ executes(approved) THEN "select" ELSE "done"]
    /\ response' = [response EXCEPT ![c] =
          IF ~ok THEN ErrorResponse("store error")
          ELSE IF executes(approved) THEN NoResponse ELSE SuccessResponse]
    /\ UNCHANGED <<env, requests, nq, query_responses, action_row, connector_log,
                   pending_list>>

\* step 2 answering an error when the SELECT finds no row
ApproveSelect_not_found_error(c, ok) ==
    LET id == request[c].action_id
        found == ok /\ id \in DOMAIN pending_actions
        row == IF found THEN Some(PendingActionDTO(id, pending_actions[id])) ELSE None
        run == found /\ pending_actions[id].action_type \in ConnectorTypes
    IN
    /\ pc[c] = "select"
    /\ action_row' = [action_row EXCEPT ![c] = row]
    /\ pc' = [pc EXCEPT ![c] = IF run THEN "execute" ELSE "done"]
    /\ response' = [response EXCEPT ![c] =
          IF run THEN NoResponse
          ELSE IF found THEN SuccessResponse ELSE ErrorResponse("action not found")]
    /\ UNCHANGED <<env, now, requests, pending_actions, nq, query_responses, request,
                   prior, connector_log, pending_list>>

\* Step 2: SELECT ... WHERE id = $1 with fetch_optional; only Ok(Some(row))
\* of a type the chain knows leads to a connector.
ApproveSelect(c, ok) ==
    LET id == request[c].action_id
        found == ok /\ id \in DOMAIN pending_actions
        row == IF found THEN Some(PendingActionDTO(id, pending_actions[id])) ELSE None
        run == found /\ pending_actions[id].action_type \in ConnectorTypes
    IN
    /\ pc[c] = "select"
    /\ action_row' = [action_row EXCEPT ![c] = row]
    /\ pc' = [pc EXCEPT ![c] = IF run THEN "execute" ELSE "done"]
    /\ response' = [response EXCEPT ![c] = IF run THEN NoResponse ELSE SuccessResponse]
    /\ UNCHANGED <<env, now, requests, pending_actions, nq, query_responses, request,
                   prior, connector_log, pending_list>>

ConnectorName(action_type) ==
    CASE action_type = "EMAIL_ALERT" -> "email"
      [] action_type = "JIRA_TICKET" -> "jira"
      [] action_type = "SLACK_ALERT" -> "slack"

\* Step 3: the connector call; its Err is logged only, and the handler answers
\* {"status": "success"} whatever the connector did. A panic ends the task
\* without a response.
ApproveExecute(c, outcome) ==
    LET action == Unwrap(action_row[c]) IN
    /\ pc[c] = "execute"
    /\ outcome \in dispatch(action, request[c].user_signature)
    /\ connector_log' = [connector_log EXCEPT ![c] = Append(@,
          [connector |-> ConnectorName(action.action_type), action_id |-> action.id,
           result |-> outcome.result, message |-> outcome.message,
           sent |-> outcome.sent])]
    /\ pc' = [pc EXCEPT ![c] = IF outcome.result = "panic" THEN "panicked" ELSE "done"]
    /\ response' = [response EXCEPT ![c] =
          IF outcome.result = "panic" THEN NoResponse ELSE SuccessResponse]
    /\ UNCHANGED <<env, now, requests, pending_actions, nq, query_responses, request,
                   action_row, prior, pending_list>>

\* Step 3 when the collaborator never answers: the connector's request was
\* built by reqwest::Client::new(), which sets no timeout, so send().await
\* does not complete and the call stays where it is.
ApproveExecuteUnanswered(c) ==
    LET action == Unwrap(action_row[c]) IN
    /\ pc[c] = "execute"
    /\ \E outcome \in dispatch(action, request[c].user_signature) : outcome.sent = 1
    /\ action.action_type \in {"JIRA_TICKET", "SLACK_ALERT"}
    /\ pc' = [pc EXCEPT ![c] = "awaiting"]
    /\ UNCHANGED <<env, now, requests, pending_actions, nq, query_responses, request,
                   action_row, response, prior, connector_log, pending_list>>

\* ------------------------------------------------------- list pending
\* WHERE status = 'pending' OR status = 'PENDING'
listed(row) == row.status = "pending" \/ row.status = "PENDING"

\* the rows in ascending order of created_at (ORDER BY created_at ASC)
OrderedAsc(table, ids) ==
    {s \in [1..Cardinality(ids) -> ids] :
        /\ \A i, j \in DOMAIN s : i # j => s[i] # s[j]
        /\ \A i, j \in DOMAIN s : i < j => table[s[i]].created_at <= table[s[j]].created_at}

\* ORDER BY created_at DESC: every order of the ids that is descending in
\* created_at (rows of equal created_at come in either order)
OrderedDesc(table, ids) ==
    {s \in [1..Cardinality(ids) -> ids] :
        /\ \A i, j \in DOMAIN s : i # j => s[i] # s[j]
        /\ \A i, j \in DOMAIN s : i < j => table[s[i]].created_at >= table[s[j]].created_at}

\* handle_get_pending: the listed rows, or an empty list when the query fails
handle_get_pending(ok) ==
    /\ \E order \in OrderedDesc(pending_actions,
                               {id \in DOMAIN pending_actions : listed(pending_actions[id])}) :
          pending_list' = IF ok
                          THEN [i \in DOMAIN order |->
                                   PendingActionDTO(order[i], pending_actions[order[i]])]
                          ELSE <<>>
    /\ UNCHANGED <<env, now, requests, pending_actions, nq, query_responses, callVars>>

\* ------------------------------------------------------ specification
\* NOW() read by a statement: the clock has not moved or has moved on
Clock == {t \in Times : t = now \/ t = now + 1}

\* query texts and collaborator answers of the submit-query calls
Queries ==
    {<<"open", "a", "Ticket">>, <<"send", "ALERT", "email">>,
     <<"post", "to", "channel">>, <<"hello">>}

Text(n) == [i \in 1..n |-> i]

AnswerOutcomes ==
    {[code_llm |-> "ok", interpreter |-> "ok", output |-> "42", embed |-> "ok",
      search |-> "ok", llm |-> "ok", completion |-> <<"answer">>,
      matches |-> <<[text |-> Text(2), score |-> 1, page |-> None]>>]}

Envs ==
    [SMTP_USER : SmtpUsers, SMTP_PASS : SmtpPasses, JIRA_DOMAIN : JiraDomains,
     SLACK_WEBHOOK_URL : SlackWebhooks, GROQ_API_KEY : {"gsk"}]

\* the empty store and the idle handlers at start-up
Started ==
    /\ now = 1
    /\ requests = <<>>
    /\ pending_actions = <<>>
    /\ nq = 0
    /\ query_responses = <<>>
    /\ pc = [c \in Calls |-> "idle"]
    /\ request = [c \in Calls |->
          [action_id |-> 1, approved |-> FALSE, user_signature |-> "alice"]]
    /\ action_row = [c \in Calls |-> None]
    /\ response = [c \in Calls |-> NoResponse]
    /\ prior = [c \in Calls |-> "none"]
    /\ connector_log = [c \in Calls |-> <<>>]
    /\ pending_list = <<>>

Init == env \in Envs /\ Started

SubmitQuery ==
    /\ nq < MaxQueries
    /\ \E user_id \in UserIds, query \in Queries, req_ok \in BOOLEAN, act_ok \in BOOLEAN,
          t \in Clock, o \in AnswerOutcomes :
           handle_query(user_id, query, req_ok, act_ok, t, o)

\* action_id of a decide request: a v4 Uuid cannot be named before it is
\* generated, so it is an id a submit-query call has generated, or a stranger
RequestedIds == (1..nq) \cup {UnknownId}

DecideUpdate ==
    \E c \in Calls, action_id \in RequestedIds, approved \in BOOLEAN,
       user_signature \in Signatures, ok \in BOOLEAN, t \in Clock :
        ApproveUpdate(c, action_id, approved, user_signature, ok, t)

DecideSelect == \E c \in Calls, ok \in BOOLEAN : ApproveSelect(c, ok)

DecideExecute ==
    \E c \in Calls, outcome \in [result : {"Ok", "Err", "panic"},
                                 message : {"", "SMTP creds missing", "invalid recipient",
                                            "smtp setup failed", "smtp send failed",
                                            "Jira credentials missing", "request failed",
                                            "Jira API Error", "SLACK_WEBHOOK_URL is not set",
                                            "Slack API Error"},
                                 sent : {0, 1}] :
        ApproveExecute(c, outcome)

ListPending == \E ok \in BOOLEAN : handle_get_pending(ok)

Next == SubmitQuery \/ DecideUpdate \/ DecideSelect \/ DecideExecute \/ ListPending

Spec == Init /\ [][Next]_vars

\* ---------------------------------------- specification: query texts
\* submit-query over every text of one or two words of Words and the
\* three-word phrase of the chat branch, in both letter cases
Words == {"ticket", "INCIDENT", "Email", "alert", "Slack", "chat", "channel",
          "compute", "solve", "math", "Calculate", "hello"}

QueryTexts ==
    [1..1 -> Words] \cup [1..2 -> Words]
        \cup {<<"Post", "to", "channel">>, <<"post", "to", "channel", "math">>}

EnvClassify ==
    [SMTP_USER |-> "ops@example.com", SMTP_PASS |-> "secret",
     JIRA_DOMAIN |-> "https://jira.example.com",
     SLACK_WEBHOOK_URL |-> "https://hooks.example.com/x", GROQ_API_KEY |-> "gsk"]

InitClassify == env = EnvClassify /\ Started

SubmitQueryTexts ==
    /\ nq < MaxQueries
    /\ \E user_id \in UserIds, query \in QueryTexts, act_ok \in BOOLEAN,
          o \in AnswerOutcomes :
           handle_query(user_id, query, TRUE, act_ok, now, o)

SpecClassify == InitClassify /\ [][SubmitQueryTexts]_vars

\* ------------------------------------- specification: collaborator replies
\* submit-query on the answer path over the replies of the embedding, the
\* vector-search and the language-model collaborators
AnswerQueries == {<<"hello">>, <<"solve", "it">>, <<"Calculate", "the", "total">>}

GroqKeys == {"", "gsk"}

EnvsAnswer == {[EnvClassify EXCEPT !.GROQ_API_KEY = k] : k \in GroqKeys}

Match(n) == [text |-> Text(n), score |-> 1, page |-> None]

\* results["results"]: texts below, at and above the excerpt length, and
\* matches without text
MatchLists ==
    {<<>>, <<Match(0)>>, <<Match(ExcerptLen - 1)>>, <<Match(ExcerptLen)>>,
     <<Match(ExcerptLen + 1), Match(0), Match(2)>>}

Replies ==
    [code_llm : {"ok", "send_err", "no_content"},
     interpreter : {"ok", "send_err", "bad_json"}, output : {"42"},
     embed : {"ok", "send_err", "no_vector"},
     search : {"ok", "send_err", "no_results"},
     llm : {"ok", "send_err", "bad_json", "no_content"},
     completion : {<<"answer">>}, matches : MatchLists]

InitAnswer == env \in EnvsAnswer /\ Started

SubmitQueryReplies ==
    /\ nq < MaxQueries
    /\ \E user_id \in UserIds, query \in AnswerQueries, o \in Replies :
           handle_query(user_id, query, TRUE, TRUE, now, o)

SpecAnswer == InitAnswer /\ [][SubmitQueryReplies]_vars

\* ------------------------------- specification: unanswered collaborator
\* the decide calls with a collaborator that may never answer. The store
\* answers every statement and a connector returns once its collaborator has
\* answered (weak fairness of the SELECT and of the connector's return);
\* nothing makes a client send a request.
DecideUnanswered == \E c \in Calls : ApproveExecuteUnanswered(c)

NextLive ==
    SubmitQuery \/ DecideUpdate \/ DecideSelect \/ DecideExecute \/ DecideUnanswered

Fairness == WF_vars(DecideSelect) /\ WF_vars(DecideExecute)

InitLive == env = [EnvClassify EXCEPT !.SMTP_USER = "", !.SMTP_PASS = ""] /\ Started

SpecLive == InitLive /\ [][NextLive]_vars /\ Fairness

\* --------------------------------------- specification: several drafts
\* the listing over several drafted actions and the decide calls on them,
\* with the ticketing connector configured
MaxDrafts == 2       \* submit-query calls in one behaviour of SpecList

EnvList ==
    [SMTP_USER |-> "", SMTP_PASS |-> "", JIRA_DOMAIN |-> "https://jira.example.com",
     SLACK_WEBHOOK_URL |-> "", GROQ_API_KEY |-> "gsk"]

InitList == env = EnvList /\ Started

SubmitDraft ==
    /\ nq < MaxDrafts
    /\ \E user_id \in UserIds, act_ok \in BOOLEAN, t \in Clock, o \in AnswerOutcomes :
           handle_query(user_id, <<"open", "a", "Ticket">>, TRUE, act_ok, t, o)

NextList == SubmitDraft \/ DecideUpdate \/ DecideSelect \/ DecideExecute \/ ListPending

SpecList == InitList /\ [][NextList]_vars

\* ============================================================== claims
\* The design's names for the executor's outcomes; no statement of the
\* handlers binds either of them.
StatusExecuted == "executed"
StatusExecutionFailed == "execution_failed"

Statuses == {StatusPending, StatusApproved, StatusRejected, StatusExecuted,
             StatusExecutionFailed}
TerminalStatuses == {StatusRejected, StatusExecuted, StatusExecutionFailed}

\* connector invocations of decide call c that handed a request to the
\* external collaborator, for action a
SentFor(c, a) ==
    Len(SelectSeq(connector_log[c], LAMBDA e : e.action_id = a /\ e.sent = 1))

RECURSIVE SumOver(_, _)
SumOver(f, S) ==
    IF S = {} THEN 0
    ELSE LET x == CHOOSE y \in S : TRUE IN f[x] + SumOver(f, S \ {x})

\* external connector calls made for action a by all decide calls
ExternalCalls(a) == SumOver([c \in Calls |-> SentFor(c, a)], Calls)

\* decide call c takes its first step (the UPDATE) in this transition
Decides(c) == pc[c] = "idle" /\ pc'[c] # "idle"

Collaborators == {"embed", "search", "llm", "interpreter"}

\* C1: a connector is invoked for an action only by a decide call with
\* approved = true on that action whose store update had gone through before;
\* a submit-query step invokes no connector (the connector log is unchanged by
\* it, and the calls it makes are to the answer-path collaborators only).
C1_ConnectorOnlyAfterApproval ==
    /\ [](\A c \in Calls : \A i \in DOMAIN connector_log[c] :
            /\ request[c].approved
            /\ request[c].action_id = connector_log[c][i].action_id
            /\ pc[c] \in {"done", "panicked"}
            /\ response[c].status # "error"
            /\ prior[c] # "none")
    /\ [](\A q \in DOMAIN query_responses : \A i \in DOMAIN query_responses[q].calls :
            query_responses[q].calls[i] \in Collaborators)
    /\ [][nq' # nq => connector_log' = connector_log]_vars

\* C1 witness: an approving decide call has handed the drafted action to its
\* external collaborator.
C1_Witness ==
    \E c \in Calls :
        /\ request[c].approved
        /\ connector_log[c] # <<>>
        /\ connector_log[c][1].sent = 1
        /\ nq > 0

\* C2 (as claimed): while an approving decide call that took the action out of
\* Pending is still in flight, a second decide call on the same action does
\* not write the row and ends with a response other than success.
C2_ConcurrentDecideOneWinner ==
    [][\A c \in Calls :
          (/\ Decides(c)
           /\ \E d \in Calls \ {c} :
                 /\ pc[d] \in {"select", "execute"}
                 /\ request[d].action_id = request'[c].action_id
                 /\ prior[d] = StatusPending)
          => /\ pending_actions' = pending_actions
             /\ pc'[c] = "done"
             /\ response'[c].status = "error"]_vars

\* C3 (as claimed): every action is handed to an external connector at most
\* once, and an approving decide call that found the action already Approved
\* calls no connector and does not answer success.
C3_AtMostOneExecution ==
    /\ \A a \in ActionIds : ExternalCalls(a) <= 1
    /\ \A c \in Calls :
          (pc[c] = "done" /\ request[c].approved /\ prior[c] = StatusApproved)
          => (connector_log[c] = <<>> /\ response[c].status # "success")

\* C4: a decide call with approved = false never invokes a connector and ends
\* with its first step; when the store executes its update on a row in Pending
\* (the call answers success), the row's status becomes Rejected.
C4_RejectSetsRejectedNoConnector ==
    /\ [](\A c \in Calls :
            (pc[c] # "idle" /\ ~request[c].approved) =>
                (connector_log[c] = <<>> /\ pc[c] = "done"))
    /\ [][\A c \in Calls :
            (/\ Decides(c)
             /\ ~request'[c].approved
             /\ response'[c] = SuccessResponse
             /\ StatusOf(pending_actions, request'[c].action_id) = StatusPending)
            => StatusOf(pending_actions', request'[c].action_id) = StatusRejected]_vars

\* C4 witness: a rejecting decide call on a Pending action has returned
\* success, the action is Rejected and no connector was invoked.
C4_Witness ==
    \E c \in Calls :
        /\ pc[c] = "done"
        /\ ~request[c].approved
        /\ prior[c] = StatusPending
        /\ response[c] = SuccessResponse
        /\ connector_log[c] = <<>>
        /\ StatusOf(pending_actions, request[c].action_id) = StatusRejected

\* C5 (as claimed): once a row's status is Rejected, Executed or
\* ExecutionFailed, no step changes its status, approved_at or approved_by.
C5_TerminalNeverMutated ==
    [][\A a \in DOMAIN pending_actions :
          pending_actions[a].status \in TerminalStatuses
          => /\ a \in DOMAIN pending_actions'
             /\ pending_actions'[a].status = pending_actions[a].status
             /\ pending_actions'[a].approved_at = pending_actions[a].approved_at
             /\ pending_actions'[a].approved_by = pending_actions[a].approved_by]_vars

\* the edges of the status state machine
StatusEdges ==
    {<<StatusPending, StatusApproved>>, <<StatusPending, StatusRejected>>,
     <<StatusApproved, StatusExecuted>>, <<StatusApproved, StatusExecutionFailed>>}

\* C6 (as claimed): every row's status is one of the five statuses, a new row
\* starts Pending, and a step changes a row's status only along an edge of the
\* state machine.
C6_StatusFollowsEdges ==
    /\ [](\A a \in DOMAIN pending_actions : pending_actions[a].status \in Statuses)
    /\ [][\A a \in DOMAIN pending_actions' :
            IF a \in DOMAIN pending_actions
            THEN \/ pending_actions'[a].status = pending_actions[a].status
                 \/ <<pending_actions[a].status, pending_actions'[a].status>> \in StatusEdges
            ELSE pending_actions'[a].status = StatusPending]_vars

\* C7 (as claimed): when an approving decide call has returned after its
\* connector call, the action is Executed if the connector answered Ok and
\* ExecutionFailed otherwise; an action is not left Approved by a returned
\* approving call.
C7_OutcomeRecorded ==
    \A c \in Calls :
        (pc[c] = "done" /\ request[c].approved /\ connector_log[c] # <<>>)
        => LET a == request[c].action_id
               e == connector_log[c][Len(connector_log[c])]
           IN /\ e.result = "Ok" => StatusOf(pending_actions, a) = StatusExecuted
              /\ e.result # "Ok" => StatusOf(pending_actions, a) = StatusExecutionFailed
              /\ StatusOf(pending_actions, a) # StatusApproved

\* mail credentials are configured
MailCredentials == env.SMTP_USER # "" /\ env.SMTP_PASS # ""

\* C8 (as claimed): an approving decide call on a SendEmail action that has
\* ended leaves the action Executed when the credentials are configured and
\* the transport succeeded, and ExecutionFailed with no mail-transport call
\* and a response returned when the credentials are absent.
C8_EmailApproval ==
    \A c \in Calls : \A i \in DOMAIN connector_log[c] :
        LET e == connector_log[c][i] IN
        (e.connector = "email" /\ pc[c] \in {"done", "panicked"})
        => /\ (MailCredentials /\ e.result = "Ok")
                => StatusOf(pending_actions, e.action_id) = StatusExecuted
           /\ ~MailCredentials
                => /\ StatusOf(pending_actions, e.action_id) = StatusExecutionFailed
                   /\ e.sent = 0
                   /\ pc[c] = "done"
                   /\ response[c] # NoResponse

\* C9 (as claimed): a decide call whose update finds the row in a status other
\* than Pending leaves the row as it is and answers something other than
\* success, for every such status and both values of approved.
C9_DecideOnDecidedIsConflict ==
    /\ [](\A c \in Calls :
            (pc[c] = "done" /\ prior[c] \in Statuses \ {StatusPending})
            => response[c].status # "success")
    /\ [][\A c \in Calls :
            (Decides(c)
             /\ StatusOf(pending_actions, request'[c].action_id)
                    \in Statuses \ {StatusPending})
            => pending_actions' = pending_actions]_vars

\* C10 (as claimed): when the connector of an approving decide call fails, the
\* call returns a response, the action is ExecutionFailed, and a later
\* listing that returns rows shows the action with that outcome.
C10_ConnectorFailureRecorded ==
    /\ [](\A c \in Calls : \A i \in DOMAIN connector_log[c] :
            connector_log[c][i].result = "Err"
            => /\ pc[c] = "done"
               /\ response[c] # NoResponse
               /\ StatusOf(pending_actions, connector_log[c][i].action_id)
                      = StatusExecutionFailed)
    /\ [][\A c \in Calls : \A i \in DOMAIN connector_log[c] :
            (/\ connector_log[c][i].result = "Err"
             /\ pending_list' # pending_list
             /\ pending_list' # <<>>)
            => \E k \in DOMAIN pending_list' :
                  /\ pending_list'[k].id = connector_log[c][i].action_id
                  /\ pending_list'[k].status = StatusExecutionFailed]_vars

\* the outcome a log entry records
EntryOutcome(e) == Outcome(e.result, e.message, e.sent)

\* C11: a decide call invokes at most one connector, and exactly one once it
\* has read back a row to execute and ended; the connector is the one of the
\* row's type (ticket -> ticketing, email -> mail, chat -> chat); after a
\* connector call, failed or not, the call invokes no further connector; and
\* every type the drafter persists is a type the dispatch chain serves.
C11_OneConnectorByType ==
    /\ [](\A c \in Calls : Len(connector_log[c]) <= 1)
    /\ [](\A c \in Calls :
            (/\ pc[c] \in {"done", "panicked"}
             /\ IsSome(action_row[c])
             /\ Unwrap(action_row[c]).action_type \in DraftTypes)
            => Len(connector_log[c]) = 1)
    /\ [](\A c \in Calls : \A i \in DOMAIN connector_log[c] :
            LET e == connector_log[c][i]
                row == pending_actions[e.action_id]
            IN /\ row.action_type = "JIRA_TICKET"
                    => /\ e.connector = "jira"
                       /\ EntryOutcome(e) \in create_real_jira_ticket(row.payload)
               /\ row.action_type = "EMAIL_ALERT"
                    => /\ e.connector = "email"
                       /\ EntryOutcome(e) \in send_real_email(row.payload)
               /\ row.action_type = "SLACK_ALERT"
                    => /\ e.connector = "slack"
                       /\ EntryOutcome(e)
                              \in post_slack_message(row.payload, request[c].user_signature))
    /\ [](\A a \in DOMAIN pending_actions :
            /\ pending_actions[a].action_type \in DraftTypes
            /\ \A u \in Signatures :
                  dispatch(PendingActionDTO(a, pending_actions[a]), u) # {})
    /\ [][\A c \in Calls :
            connector_log[c] # <<>> => connector_log'[c] = connector_log[c]]_vars

\* C11 witness: a decide call has ended after one connector call that reached
\* the external collaborator and failed.
C11_Witness ==
    \E c \in Calls :
        /\ pc[c] = "done"
        /\ Len(connector_log[c]) = 1
        /\ connector_log[c][1].result = "Err"
        /\ connector_log[c][1].sent = 1

\* C12: the step of an approving decide call that invokes the connector comes
\* after the call's store update (the row is out of Pending and carries the
\* approval stamp) and before its response; a call whose update failed (it
\* answered the error) has invoked no connector; and once a call has answered,
\* it invokes no connector and its answer stands.
C12_UpdateThenConnectorThenResponse ==
    /\ [][\A c \in Calls :
            connector_log'[c] # connector_log[c]
            => /\ request[c].approved
               /\ pc[c] = "execute"
               /\ response[c] = NoResponse
               /\ prior[c] # "none"
               /\ StatusOf(pending_actions, request[c].action_id)
                      \notin {StatusPending, "absent"}
               /\ IsSome(pending_actions[request[c].action_id].approved_at)]_vars
    /\ [](\A c \in Calls : response[c].status = "error" => connector_log[c] = <<>>)
    /\ [][\A c \in Calls :
            response[c] # NoResponse
            => /\ connector_log'[c] = connector_log[c]
               /\ response'[c] = response[c]]_vars

\* C12 witness: an approving decide call has answered success after its
\* connector call, on a row carrying the approval stamp.
C12_Witness ==
    \E c \in Calls :
        /\ pc[c] = "done"
        /\ request[c].approved
        /\ Len(connector_log[c]) = 1
        /\ response[c] = SuccessResponse
        /\ IsSome(pending_actions[request[c].action_id].approved_at)

\* the text contains one of the phrases, whatever the case of its letters
Mentions(text, phrases) == \E k \in phrases : Contains(to_lowercase(text), k)

TicketPhrases == {<<"ticket">>, <<"incident">>}
EmailPhrases == {<<"email">>, <<"alert">>}

\* the branch handle_query took for a response, read off the response: the
\* summary of a draft, the first collaborator called otherwise
Branch(r) ==
    IF r.pending_actions # <<>>
    THEN CASE Head(r.summary) = "Prepared JIRA ticket (Action ID: " -> "CreateTicket"
           [] Head(r.summary) = "Drafted Email Alert (Action ID: " -> "SendEmail"
           [] Head(r.summary) = "I have drafted a Slack message." -> "PostChatMessage"
    ELSE IF r.calls # <<>> /\ Head(r.calls) = "llm" THEN "ExecuteComputation"
    ELSE "AnswerFromKnowledgeBase"

\* the query text of handled query q (the request row written for it)
QueryOf(q) == requests[query_responses[q].request_id].query

\* the action row drafted for handled query q, if the store holds one
DraftedRows(q) ==
    {pending_actions[a] : a \in {query_responses[q].pending_actions[i] :
                                   i \in DOMAIN query_responses[q].pending_actions}
                               \cap DOMAIN pending_actions}

\* C13 (as claimed): a query mentioning "ticket" or "incident" takes the
\* ticket branch, and the action row drafted for it has action type
\* "CreateTicket" and status Pending.
C13_TicketQueryDraftsCreateTicket ==
    \A q \in DOMAIN query_responses :
        Mentions(QueryOf(q), TicketPhrases)
        => /\ Branch(query_responses[q]) = "CreateTicket"
           /\ \A row \in DraftedRows(q) :
                 row.action_type = "CreateTicket" /\ row.status = StatusPending

\* C13 (amended): a query mentioning "ticket" or "incident", whatever else
\* it mentions, takes the ticket branch and returns one action id, and the
\* action row drafted for it has action type "JIRA_TICKET", status Pending
\* and the query's request id.
C13_TicketQueryDraftsJiraTicket ==
    \A q \in DOMAIN query_responses :
        Mentions(QueryOf(q), TicketPhrases)
        => /\ Branch(query_responses[q]) = "CreateTicket"
           /\ Len(query_responses[q].pending_actions) = 1
           /\ \A row \in DraftedRows(q) :
                 /\ row.action_type = "JIRA_TICKET"
                 /\ row.status = StatusPending
                 /\ row.request_id = query_responses[q].request_id

\* C13 witness: a query mentioning an upper-case "INCIDENT" beside an email
\* keyword has a persisted ticket draft.
C13_Witness ==
    \E q \in DOMAIN query_responses :
        /\ Contains(QueryOf(q), <<"INCIDENT">>)
        /\ Mentions(QueryOf(q), EmailPhrases)
        /\ DraftedRows(q) # {}
        /\ \A row \in DraftedRows(q) : row.action_type = "JIRA_TICKET"

\* the intent the claimed keyword lists give a text
ClaimedIntent(text) ==
    IF Mentions(text, TicketPhrases) THEN "CreateTicket"
    ELSE IF Mentions(text, EmailPhrases) THEN "SendEmail"
    ELSE IF Mentions(text, {<<"chat">>, <<"channel">>}) THEN "PostChatMessage"
    ELSE IF Mentions(text, {<<"compute">>, <<"solve">>}) THEN "ExecuteComputation"
    ELSE "AnswerFromKnowledgeBase"

\* C14 (as claimed): every query takes the branch of the first intent, in the
\* order CreateTicket (ticket/incident), SendEmail (email/alert),
\* PostChatMessage (chat/channel), ExecuteComputation (compute/solve), whose
\* keywords it mentions, and the knowledge-base branch when it mentions none.
C14_ClassifyClaimedKeywords ==
    \A q \in DOMAIN query_responses :
        Branch(query_responses[q]) = ClaimedIntent(QueryOf(q))

ChatPhrases == {<<"slack">>, <<"post", "to", "channel">>}
ComputePhrases == {<<"calculate">>, <<"solve">>, <<"math">>}

\* C14 (amended): every query takes exactly one of the five branches: the
\* ticket branch if it mentions ticket/incident; else the email branch if it
\* mentions email/alert; else the chat branch if it mentions slack or "post to
\* channel"; else the computation branch if it mentions calculate, solve or
\* math; else the knowledge-base branch.
C14_ClassifyFirstMatchWins ==
    \A q \in DOMAIN query_responses :
        LET text == QueryOf(q)
            b == Branch(query_responses[q])
            t1 == Mentions(text, TicketPhrases)
            t2 == Mentions(text, EmailPhrases)
            t3 == Mentions(text, ChatPhrases)
            t4 == Mentions(text, ComputePhrases)
        IN /\ t1 => b = "CreateTicket"
           /\ (~t1 /\ t2) => b = "SendEmail"
           /\ (~t1 /\ ~t2 /\ t3) => b = "PostChatMessage"
           /\ (~t1 /\ ~t2 /\ ~t3 /\ t4) => b = "ExecuteComputation"
           /\ (~t1 /\ ~t2 /\ ~t3 /\ ~t4) => b = "AnswerFromKnowledgeBase"

\* C14 witness: a query mentioning an upper-case "Slack" beside a
\* computation keyword took the chat branch.
C14_Witness ==
    \E q \in DOMAIN query_responses :
        /\ Contains(QueryOf(q), <<"Slack">>)
        /\ Mentions(QueryOf(q), ComputePhrases)
        /\ Branch(query_responses[q]) = "PostChatMessage"

\* C15 (as claimed): every action id a submit-query response returns names a
\* row the store holds (a failed write of the action yields no response
\* carrying its id).
C15_ReturnedIdsArePersisted ==
    \A q \in DOMAIN query_responses :
        \A i \in DOMAIN query_responses[q].pending_actions :
            query_responses[q].pending_actions[i] \in DOMAIN pending_actions

\* C16 (as claimed): every action row references a request row the store
\* holds, and a query whose request row was not written has no action drafted
\* for it: no row with its request id, and no action id in its response.
C16_ActionReferencesStoredRequest ==
    /\ \A a \in DOMAIN pending_actions :
          pending_actions[a].request_id \in DOMAIN requests
    /\ \A q \in DOMAIN query_responses :
          query_responses[q].request_id \notin DOMAIN requests
          => /\ query_responses[q].pending_actions = <<>>
             /\ \A a \in DOMAIN pending_actions :
                   pending_actions[a].request_id # query_responses[q].request_id

\* the lifecycle statuses a handled query ends in, in the store's spelling
RequestOutcomeStatuses == {"answered", "action_drafted", "failed"}

\* C17 (as claimed): once the handler has returned the response of a query,
\* the query's request row carries the outcome (Answered, ActionDrafted or
\* Failed) as its status.
C17_RequestStatusIsOutcome ==
    \A q \in DOMAIN query_responses :
        query_responses[q].request_id \in DOMAIN requests
        => requests[query_responses[q].request_id].status \in RequestOutcomeStatuses

\* the response came from the knowledge-base path (PATH D ran)
AnswerPath(r) == \E i \in DOMAIN r.calls : r.calls[i] = "embed"

\* C18 (as claimed): an answer-path response assembled without any retrieved
\* text (embedding or search failed, or no match carried text) has a
\* non-empty summary and no citation.
C18_DegradedAnswerHasSummary ==
    \A q \in DOMAIN query_responses :
        LET r == query_responses[q] IN
        (AnswerPath(r) /\ r.context = Placeholder)
        => (r.summary # <<>> /\ r.citations = <<>>)

\* C19 (as claimed): every answer-path response has a non-empty summary,
\* also when the language-model call failed, answered something malformed,
\* or was not made.
C19_AnswerSummaryNeverEmpty ==
    \A q \in DOMAIN query_responses :
        AnswerPath(query_responses[q]) => query_responses[q].summary # <<>>

\* C20: every citation's excerpt has at most 150 characters; the citations
\* are those of the retrieved texts, in order, and each excerpt is the text
\* itself when the text has at most 150 characters and its first 150
\* characters otherwise.
C20_ExcerptAtMost150 ==
    \A q \in DOMAIN query_responses :
        LET r == query_responses[q] IN
        /\ \A i \in DOMAIN r.citations : Len(r.citations[i].text) <= 150
        /\ r.citations # <<>>
           => /\ Len(r.citations) = Len(r.context)
              /\ \A i \in DOMAIN r.citations :
                    LET src == r.context[i]
                        excerpt == r.citations[i].text
                    IN /\ Len(src) <= 150 => excerpt = src
                       /\ Len(src) > 150
                            => /\ Len(excerpt) = 150
                               /\ \A k \in 1..150 : excerpt[k] = src[k]

\* C20 witness: a response cites a retrieved text of 151 characters by an
\* excerpt of 150, beside a text cited whole.
C20_Witness ==
    \E q \in DOMAIN query_responses :
        LET r == query_responses[q] IN
        /\ \E i \in DOMAIN r.citations :
              Len(r.context[i]) = 151 /\ Len(r.citations[i].text) = 150
        /\ \E i \in DOMAIN r.citations :
              Len(r.context[i]) = 2 /\ r.citations[i].text = r.context[i]

\* the matches of a search reply that carry text, in the order returned
WithText(matches) == SelectSeq(matches, LAMBDA m : m.text # <<>>)

\* s is the beginning of t
IsPrefix(s, t) == Len(s) <= Len(t) /\ \A k \in 1..Len(s) : s[k] = t[k]

\* C21: the citation list and the assembled context of an answer-path
\* response have one entry per returned match with non-empty text, in the
\* order returned (the citation carries the match's page and score and cites
\* its text, the context entry is its text); matches with empty text add
\* nothing, and with no match with text the context is the placeholder.
C21_EmptyTextMatchesDropped ==
    \A q \in DOMAIN query_responses :
        LET r == query_responses[q]
            kept == WithText(r.results)
        IN AnswerPath(r)
           => /\ Len(r.citations) = Len(kept)
              /\ \A i \in DOMAIN kept :
                    /\ IsPrefix(r.citations[i].text, kept[i].text)
                    /\ r.citations[i].text # <<>>
                    /\ r.citations[i].page = kept[i].page
                    /\ r.citations[i].relevance_score = kept[i].score
              /\ r.context = IF kept = <<>> THEN Placeholder
                             ELSE [i \in DOMAIN kept |-> kept[i].text]

\* C21 witness: the search returned three matches, the second without text,
\* and the response cites the first and the third.
C21_Witness ==
    \E q \in DOMAIN query_responses :
        LET r == query_responses[q] IN
        /\ Len(r.results) = 3
        /\ r.results[2].text = <<>>
        /\ Len(r.citations) = 2
        /\ r.context = <<r.results[1].text, r.results[3].text>>

\* the ids a listing shows
ListedIds(list) == {list[i].id : i \in DOMAIN list}

\* the listing shows each of the rows of ids once, newest first, as the
\* store holds them
ListsNewestFirst(list, table, ids) ==
    /\ ListedIds(list) = ids
    /\ Len(list) = Cardinality(ids)
    /\ \A i, j \in DOMAIN list :
          i < j => table[list[i].id].created_at >= table[list[j].id].created_at
    /\ \A i \in DOMAIN list : list[i] = PendingActionDTO(list[i].id, table[list[i].id])

\* C22 (as claimed): a listing that returns rows returns exactly the actions
\* not in a terminal status (Pending or Approved), each once, newest first.
C22_ListsUnresolvedNewestFirst ==
    [][(pending_list' # pending_list /\ pending_list' # <<>>)
       => ListsNewestFirst(pending_list', pending_actions',
              {a \in DOMAIN pending_actions' :
                  pending_actions'[a].status \notin TerminalStatuses})]_vars

\* C22 (amended): a listing returns either nothing (the store query failed,
\* or no action is Pending) or exactly the actions in status Pending, each
\* once, newest first; an action whose decision was stored, approving or
\* rejecting, is not in it.
C22_ListsPendingNewestFirst ==
    [][pending_list' # pending_list
       => \/ pending_list' = <<>>
          \/ /\ ListsNewestFirst(pending_list', pending_actions',
                     {a \in DOMAIN pending_actions' :
                         pending_actions'[a].status = StatusPending})
             /\ \A i \in DOMAIN pending_list' :
                   pending_list'[i].status
                       \notin {StatusApproved, StatusRejected, StatusExecuted,
                                StatusExecutionFailed}]_vars

\* C22 witness: a listing shows two actions, the one created later first.
C22_Witness ==
    /\ Len(pending_list) = 2
    /\ pending_actions[pending_list[1].id].created_at
          > pending_actions[pending_list[2].id].created_at

\* C23 (as claimed): a decide call whose update found the action Rejected
\* invokes no connector, and a Rejected action stays Rejected.
C23_RejectedNeverExecuted ==
    /\ [](\A c \in Calls : prior[c] = StatusRejected => connector_log[c] = <<>>)
    /\ [][\A a \in DOMAIN pending_actions :
            pending_actions[a].status = StatusRejected
            => StatusOf(pending_actions', a) = StatusRejected]_vars

\* C27 (as claimed): a decide call goes on to the connector only if the row
\* it read back is Approved; after a reject's update has been applied to the
\* row, the approver that reads it back calls no connector.
C27_ConnectorOnlyOnApprovedRow ==
    \A c \in Calls :
        pc[c] = "execute" => Unwrap(action_row[c]).status = StatusApproved

\* the positions of the calls to a collaborator in a call sequence
Positions(calls, name) == {i \in DOMAIN calls : calls[i] = name}

Failed(r, name) == \E k \in DOMAIN r.failed : r.failed[k] = name

\* C24: on the answer path the embedding is called once; the search is called
\* at most once, directly after the embedding and only when the embedding
\* gave a vector; when the embedding failed there is no search call and the
\* context is the "no documents found" placeholder; the language-model call
\* of the synthesis is the last call, after embedding and search.
C24_RetrievalStagesInOrder ==
    \A q \in DOMAIN query_responses :
        LET r == query_responses[q]
            e == Positions(r.calls, "embed")
            s == Positions(r.calls, "search")
        IN AnswerPath(r)
           => /\ Cardinality(e) = 1
              /\ Cardinality(s) <= 1
              /\ \A i \in s : (i - 1) \in e /\ ~Failed(r, "embed")
              /\ Failed(r, "embed")
                    => /\ s = {}
                       /\ r.context = Placeholder
                       /\ r.citations = <<>>
              /\ \A i \in Positions(r.calls, "llm") :
                    (\E j \in e : j < i)
                    => /\ i = Len(r.calls)
                       /\ \A j \in e \cup s : j < i

\* C24 witness: the embedding failed, and the handler went from it straight
\* to the language model with the placeholder context.
C24_Witness ==
    \E q \in DOMAIN query_responses :
        LET r == query_responses[q] IN
        /\ Failed(r, "embed")
        /\ r.calls = <<"embed", "llm">>
        /\ r.context = Placeholder

ComputationSummary(r) ==
    r.summary # <<>> /\ Head(r.summary) = "I wrote and executed a Python script"

\* C29: a query of the computation branch never drafts an action; when the
\* language-model key is set and neither the code request nor the
\* interpreter failed, the response is the computation result and no
\* retrieval ran; in every other case (no key, so no code request; code
\* request failed; interpreter failed) the handler went on to the answer
\* path and the response is that path's.
C29_ComputationFallsThrough ==
    \A q \in DOMAIN query_responses :
        LET r == query_responses[q]
            text == QueryOf(q)
        IN (/\ Mentions(text, ComputePhrases)
            /\ ~Mentions(text, TicketPhrases \cup EmailPhrases \cup ChatPhrases))
           => /\ r.pending_actions = <<>>
              /\ \A a \in DOMAIN pending_actions :
                    pending_actions[a].request_id # r.request_id
              /\ env.GROQ_API_KEY = "" => Head(r.calls) = "embed"
              /\ IF /\ env.GROQ_API_KEY # ""
                    /\ ~Failed(r, "code_llm")
                    /\ ~Failed(r, "interpreter")
                 THEN /\ r.calls = <<"llm", "interpreter">>
                      /\ ComputationSummary(r)
                      /\ r.citations = <<>>
                      /\ ~AnswerPath(r)
                 ELSE /\ AnswerPath(r)
                      /\ ~ComputationSummary(r)

\* C29 witness: the interpreter failed after the code request succeeded, and
\* the response came from the answer path.
C29_Witness ==
    \E q \in DOMAIN query_responses :
        LET r == query_responses[q] IN
        /\ Failed(r, "interpreter")
        /\ SubSeq(r.calls, 1, 3) = <<"llm", "interpreter", "embed">>
        /\ r.pending_actions = <<>>

\* the payload keys of each intent
PayloadKeys(action_type) ==
    CASE action_type = "JIRA_TICKET" -> {"description", "priority"}
      [] action_type = "EMAIL_ALERT" -> {"description", "recipient", "priority"}
      [] action_type = "SLACK_ALERT" -> {"description", "channel", "priority"}

\* C25: every action row the store holds has exactly the payload keys of its
\* type (ticket {description, priority}, email {description, recipient,
\* priority}, chat {description, channel, priority}), references the request
\* id of a handled query, and is the one action id that query's response
\* returns; the description carries the query text.
C25_DraftPayloadAndLinks ==
    \A a \in DOMAIN pending_actions :
        LET row == pending_actions[a] IN
        /\ DOMAIN row.payload = PayloadKeys(row.action_type)
        /\ \E q \in DOMAIN query_responses :
              /\ query_responses[q].request_id = row.request_id
              /\ query_responses[q].pending_actions = <<a>>
              /\ row.payload.description[2] = QueryOf(q)

\* C25 witness: the store holds an email draft with its recipient, and a
\* response returns its id.
C25_Witness ==
    \E a \in DOMAIN pending_actions :
        /\ pending_actions[a].action_type = "EMAIL_ALERT"
        /\ "recipient" \in DOMAIN pending_actions[a].payload
        /\ \E q \in DOMAIN query_responses : query_responses[q].pending_actions = <<a>>

\* C28 (as claimed): a submit-query call of a drafting branch adds exactly one
\* action row to the store and returns exactly one action id, no citation,
\* and calls no collaborator; a call of the computation or the knowledge-base
\* branch adds no row and returns no action id.
C28_DraftsOneOrNone ==
    [][nq' # nq
       => LET r == query_responses'[nq']
              added == DOMAIN pending_actions' \ DOMAIN pending_actions
          IN IF Branch(r) \in {"CreateTicket", "SendEmail", "PostChatMessage"}
             THEN /\ Cardinality(added) = 1
                  /\ Len(r.pending_actions) = 1
                  /\ r.citations = <<>>
                  /\ r.calls = <<>>
             ELSE /\ added = {}
                  /\ r.pending_actions = <<>>]_vars

\* C26 (as claimed): every decide call that has reached its connector
\* eventually returns a response, also when the collaborator never answers.
C26_EveryDecideReturns ==
    \A c \in Calls : (pc[c] = "execute") ~> (response[c] # NoResponse)

\* C30: a decide call whose action_id names no row (its update found none)
\* never reaches a connector; none of its steps changes a table; and once it
\* has ended it has answered success, with either value of approved, unless
\* the store failed its UPDATE (then it answers that error).
C30_UnknownActionIsSuccess ==
    /\ [](\A c \in Calls :
            prior[c] = "absent"
            => /\ connector_log[c] = <<>>
               /\ pc[c] \in {"select", "done"}
               /\ pc[c] = "done"
                    => response[c] \in {SuccessResponse, ErrorResponse("store error")})
    /\ [][\A c \in Calls :
            (pc'[c] # pc[c] /\ prior'[c] = "absent")
            => /\ pending_actions' = pending_actions
               /\ requests' = requests
               /\ (pc[c] = "select" => response'[c] = SuccessResponse)
               /\ (pc[c] = "idle" /\ ~request'[c].approved /\ response'[c].status # "error")
                     => response'[c] = SuccessResponse]_vars

\* C30 witness: an approving decide call on an id that names no row has
\* ended with success; so has a rejecting one.
C30_Witness ==
    /\ \E c \in Calls :
          /\ prior[c] = "absent"
          /\ request[c].approved
          /\ request[c].action_id = UnknownId
          /\ pc[c] = "done"
          /\ response[c] = SuccessResponse
    /\ \E c \in Calls :
          /\ prior[c] = "absent"
          /\ ~request[c].approved
          /\ pc[c] = "done"
          /\ response[c] = SuccessResponse

====
